---- MODULE Spec2Model ----
(***************************************************************************)
(* Password validation of vince-kr/password-example.                       *)
(*                                                                         *)
(* Two variants decide the same policy: the free function is_valid of      *)
(* validate_password_function.py and the property Password.is_valid of     *)
(* password_class.py.  A password is a sequence of characters; a character *)
(* is a one-character string, and a character outside ASCII is written by  *)
(* its code point ("U+00B2").                                              *)
(***************************************************************************)
EXTENDS Naturals, Sequences, FiniteSets, TLC

VARIABLES
    password,               \* user_password, the text handed to the validator
    called,                 \* the variants called on password so far
    result,                 \* variant -> the boolean its call returned
    constraints,            \* variant -> the set of constraints its call built
    Password_SPECIAL_CHARS, \* the class attribute Password._SPECIAL_CHARS
    op,                     \* how password came about: "input", "permute", "extend",
                            \* "repeat", "call" (a first call with it), "again"
    prev_result,            \* the result known for the previous password, as a set
    first                   \* input -> the result of the first call made with it

vars == <<password, called, result, constraints, Password_SPECIAL_CHARS,
          op, prev_result, first>>

---------------------------------------------------------------------------
(* Bounds of the model.                                                    *)

\* Longest generated password.
MaxLen == 6

---------------------------------------------------------------------------
(* Characters and Python's classification of them.                         *)

AsciiUpper == {"A", "B", "C", "D", "E", "F", "G", "H", "I", "J", "K", "L", "M",
               "N", "O", "P", "Q", "R", "S", "T", "U", "V", "W", "X", "Y", "Z"}

AsciiLower == {"a", "b", "c", "d", "e", "f", "g", "h", "i", "j", "k", "l", "m",
               "n", "o", "p", "q", "r", "s", "t", "u", "v", "w", "x", "y", "z"}

AsciiDigit == {"0", "1", "2", "3", "4", "5", "6", "7", "8", "9"}

\* str.isupper() of one character: a cased character that is uppercase.
\* U+2167 (ROMAN NUMERAL EIGHT, Nl, Other_Uppercase) is uppercase;
\* U+01C5 (titlecase Lt) is not.
isupper(character) == character \in AsciiUpper \cup {"U+2167"}

\* str.islower() of one character.  U+00DF is LATIN SMALL LETTER SHARP S.
islower(character) == character \in AsciiLower \cup {"U+00DF"}

\* str.isnumeric() of one character: every character with a Unicode numeric
\* value, so also U+00B2 (SUPERSCRIPT TWO), U+00BD (VULGAR FRACTION ONE
\* HALF) and U+2167 (ROMAN NUMERAL EIGHT).
isnumeric(character) == character \in AsciiDigit \cup {"U+00B2", "U+00BD", "U+2167"}

\* SPECIAL_CHARS with a seventh character.
SPECIAL_CHARS_with_hash == <<"!", "?", "&", "%", "*", "@", "#">>

\* The tuple SPECIAL_CHARS that is_valid builds on every call.
SPECIAL_CHARS == <<"!", "?", "&", "%", "*", "@">>

\* `special_char in password` for a one-character special_char.
contains(text, special_char) == \E i \in DOMAIN text : text[i] = special_char

\* any(): some element of the generated sequence of booleans is true.
any(generated) == \E i \in DOMAIN generated : generated[i]

\* any() in the place of all().
all_as_any(s) == \E x \in s : x

\* all() of a set of booleans: no element is false.
all(s) == \A x \in s : x

\* set({a, b, c, d, e}): equal booleans merge.
set(a, b, c, d, e) == {a, b, c, d, e}

---------------------------------------------------------------------------
(* The free function, validate_password_function.py.                       *)

\* The five constraint expressions, in the order of the source.
\* Variants of the length constraint: len(password) >= 5, > 6, == 6.
fn_length_from_5(pw) == Len(pw) >= 5
fn_length_strict(pw) == Len(pw) > 6
fn_length_exact(pw) == Len(pw) = 6

\* password[:1].isupper(): only the first character is looked at.
fn_upper_first(pw) == Len(pw) > 0 /\ isupper(pw[1])

\* str.isdigit() in the place of str.isnumeric(): U+00B2 is a digit, U+00BD
\* and U+2167 are not.
fn_numeric_isdigit(pw) ==
    any([i \in DOMAIN pw |-> pw[i] \in AsciiDigit \cup {"U+00B2"}])

fn_length(pw) == Len(pw) >= 6
fn_upper(pw) == any([i \in DOMAIN pw |-> isupper(pw[i])])
fn_lower(pw) == any([i \in DOMAIN pw |-> islower(pw[i])])
fn_numeric(pw) == any([i \in DOMAIN pw |-> isnumeric(pw[i])])
fn_special(pw) == any([k \in DOMAIN SPECIAL_CHARS |-> contains(pw, SPECIAL_CHARS[k])])

fn_constraints(pw) ==
    set(fn_length(pw), fn_upper(pw), fn_lower(pw), fn_numeric(pw), fn_special(pw))

is_valid(pw) == all(fn_constraints(pw))

---------------------------------------------------------------------------
(* The str subclass, password_class.py.                                    *)

\* The constraints with len(self) > 6.
Password__constraints_strict(self, special_chars) ==
    set(Len(self) > 6,
        any([i \in DOMAIN self |-> islower(self[i])]),
        any([i \in DOMAIN self |-> isupper(self[i])]),
        any([i \in DOMAIN self |-> isnumeric(self[i])]),
        any([k \in DOMAIN special_chars |-> contains(self, special_chars[k])]))

Password__constraints(self, special_chars) ==
    set(Len(self) >= 6,
        any([i \in DOMAIN self |-> islower(self[i])]),
        any([i \in DOMAIN self |-> isupper(self[i])]),
        any([i \in DOMAIN self |-> isnumeric(self[i])]),
        any([k \in DOMAIN special_chars |-> contains(self, special_chars[k])]))

Password_is_valid(self, special_chars) == all(Password__constraints(self, special_chars))

---------------------------------------------------------------------------
(* Inputs.                                                                 *)

\* One character of each class the policy names, and one of none of them.
Alphabet == {"a", "A", "1", "!", "#"}

\* Every text over Alphabet of at most MaxLen characters, the empty one included.
Texts == UNION {[1..n -> Alphabet] : n \in 0..MaxLen}

\* The passwords the repository and its description name.
Examples == {<<>>,
             <<"A", "b", "1", "!", "a", "b">>,
             <<"p", "a", "s", "s", "w", "o", "r", "d">>,
             <<"P", "y", "t", "h", "o", "n", "R", "0", "c", "k", "s", "!">>}

\* "Ab1!ab" with its special character replaced: by each character of
\* SPECIAL_CHARS, and by characters outside it.
OtherPunctuation == {"#", "$", "^", "-", "_", " ", "."}
SpecialProbes ==
    {<<"A", "b", "1", c, "a", "b">> :
        c \in {SPECIAL_CHARS[k] : k \in DOMAIN SPECIAL_CHARS} \cup OtherPunctuation}

\* "Ab1!ab" with its digit, or a letter, replaced by a character outside ASCII.
UnicodeProbes ==
    {<<"A", "b", c, "!", "a", "b">> : c \in {"U+00B2", "U+00BD", "U+2167", "U+01C5"}}
        \cup {<<c, "U+00DF", "1", "!", "U+00DF", "U+00DF">> : c \in {"U+2167", "U+01C5", "A"}}
        \cup {<<"U+2167", "b", "x", "!", "a", "b">>}

Inputs == Texts \cup Examples \cup SpecialProbes \cup UnicodeProbes

Variants == {"function", "property"}

\* The function with the empty domain.
Nothing == [v \in {} |-> FALSE]

---------------------------------------------------------------------------
(* State after construction: the class attribute is set, user_password is  *)
(* assigned, nothing has been called.                                      *)

Init ==
    /\ password \in Inputs
    /\ called = {}
    /\ result = Nothing
    /\ constraints = Nothing
    /\ Password_SPECIAL_CHARS = <<"!", "?", "&", "%", "*", "@">>
    /\ op = "input"
    /\ prev_result = {}
    /\ first = Nothing

---------------------------------------------------------------------------
(* One call of each variant on user_password.                              *)

\* A call that looks at password[0] first: it raises IndexError for the
\* empty text and returns nothing.
CallFunction_indexing ==
    /\ "function" \notin called
    /\ called' = called \cup {"function"}
    /\ IF password = <<>>
       THEN UNCHANGED <<constraints, result>>
       ELSE /\ constraints' = ("function" :> fn_constraints(password)) @@ constraints
            /\ result' = ("function" :> is_valid(password)) @@ result
    /\ UNCHANGED <<password, Password_SPECIAL_CHARS, op, prev_result, first>>

\* is_valid(user_password): the call builds its set of constraints and
\* returns all() of it.
CallFunction ==
    /\ "function" \notin called
    /\ called' = called \cup {"function"}
    /\ constraints' = ("function" :> fn_constraints(password)) @@ constraints
    /\ result' = ("function" :> is_valid(password)) @@ result
    /\ UNCHANGED <<password, Password_SPECIAL_CHARS, op, prev_result, first>>

\* Password(user_password).is_valid: the property reads the class attribute.
CallProperty ==
    /\ "property" \notin called
    /\ called' = called \cup {"property"}
    /\ constraints' =
          ("property" :> Password__constraints(password, Password_SPECIAL_CHARS))
              @@ constraints
    /\ result' =
          ("property" :> Password_is_valid(password, Password_SPECIAL_CHARS)) @@ result
    /\ UNCHANGED <<password, Password_SPECIAL_CHARS, op, prev_result, first>>

Next == CallFunction \/ CallProperty

Spec == Init /\ [][Next]_vars

---------------------------------------------------------------------------
(* A second validation of a related text: once both variants have          *)
(* validated the input, the caller validates the same text again, a        *)
(* permutation of it or an extension of it, with both variants.            *)

\* The set of constraints variant v builds for pw, and the boolean it returns.
Constraints(v, pw) ==
    IF v = "function" THEN fn_constraints(pw)
    ELSE Password__constraints(pw, Password_SPECIAL_CHARS)

Validate(v, pw) ==
    IF v = "function" THEN is_valid(pw)
    ELSE Password_is_valid(pw, Password_SPECIAL_CHARS)

\* text with the characters at positions i and j exchanged.
Swap(text, i, j) ==
    [k \in DOMAIN text |-> IF k = i THEN text[j] ELSE IF k = j THEN text[i] ELSE text[k]]

\* What is added to a password: one character of Alphabet, or some more.
Extensions ==
    {<<c>> : c \in Alphabet} \cup {<<"x", "Y", "2">>}

\* user_password is assigned new_password and both variants are called on
\* it; the results known for the text before are kept for comparison.
Resubmit(new_password, how) ==
    /\ op = "input"
    /\ called = Variants
    /\ password' = new_password
    /\ called' = Variants
    /\ constraints' = [v \in Variants |-> Constraints(v, new_password)]
    /\ result' = [v \in Variants |-> Validate(v, new_password)]
    /\ op' = how
    /\ prev_result' = {result[v] : v \in called}
    /\ UNCHANGED <<Password_SPECIAL_CHARS, first>>

\* Every permutation is a product of exchanges of neighbours, and every
\* text of Texts is an input.
Permute ==
    /\ Len(password) <= MaxLen
    /\ \E i \in DOMAIN password :
          /\ i < Len(password)
          /\ Resubmit(Swap(password, i, i + 1), "permute")

ExtendRight ==
    /\ Len(password) <= MaxLen
    /\ \E u \in Extensions : Resubmit(password \o u, "extend")

ExtendLeft ==
    /\ Len(password) <= MaxLen
    /\ \E u \in Extensions : Resubmit(u \o password, "extend")

Repeat == Resubmit(password, "repeat")

NextEdit ==
    \/ CallFunction
    \/ CallProperty
    \/ Permute
    \/ ExtendRight
    \/ ExtendLeft
    \/ Repeat

SpecEdit == Init /\ [][NextEdit]_vars

---------------------------------------------------------------------------
(* Any sequence of calls on any of a few inputs, with either variant.      *)

CallInputs == Examples \cup {<<"A", "b", "1", "@", "a", "b">>,
                             <<"A", "b", "1", "#", "a", "b">>,
                             <<"A", "b", "U+00B2", "!", "a", "b">>}

InitCalls ==
    /\ Init
    /\ password \in CallInputs

\* A call whose set of constraints is built once per variant and kept: the
\* constraints as a field, evaluated when first needed.
Call_cached(v, t) ==
    LET kept == IF v \in DOMAIN constraints THEN constraints[v] ELSE Constraints(v, t)
    IN  /\ password' = t
        /\ called' = {v}
        /\ constraints' = (v :> kept) @@ constraints
        /\ result' = (v :> all(kept))
        /\ first' = IF t \in DOMAIN first THEN first ELSE (t :> all(kept)) @@ first
        /\ op' = IF t \in DOMAIN first THEN "again" ELSE "call"
        /\ UNCHANGED <<Password_SPECIAL_CHARS, prev_result>>

\* user_password is assigned t and variant v is called on it.  first keeps
\* the result of the first call made with each input.
Call(v, t) ==
    /\ password' = t
    /\ called' = {v}
    /\ constraints' = (v :> Constraints(v, t)) @@ constraints
    /\ result' = (v :> Validate(v, t))
    /\ first' = IF t \in DOMAIN first THEN first ELSE (t :> Validate(v, t)) @@ first
    /\ op' = IF t \in DOMAIN first THEN "again" ELSE "call"
    /\ UNCHANGED <<Password_SPECIAL_CHARS, prev_result>>

NextCalls == \E v \in Variants, t \in CallInputs : Call(v, t)

SpecCalls == InitCalls /\ [][NextCalls]_vars

---------------------------------------------------------------------------
(* The policy as the description states it, for comparison.                *)

SpecialSet == {"!", "?", "&", "%", "*", "@"}

HasLower(t) == \E i \in 1..Len(t) : islower(t[i])
HasUpper(t) == \E i \in 1..Len(t) : isupper(t[i])
HasNumeric(t) == \E i \in 1..Len(t) : isnumeric(t[i])
HasSpecial(t) == \E i \in 1..Len(t) : t[i] \in SpecialSet

AllFour(t) == HasLower(t) /\ HasUpper(t) /\ HasNumeric(t) /\ HasSpecial(t)

Policy(t) == Len(t) >= 6 /\ AllFour(t)

\* The sequences that hold every element of S once.
RECURSIVE Arrangements(_)
Arrangements(S) ==
    IF S = {} THEN {<<>>}
    ELSE UNION {{<<x>> \o rest : rest \in Arrangements(S \ {x})} : x \in S}

\* The orders in which five predicates can be evaluated.
Orders == Arrangements(1..5)

\* Evaluation of the predicates r in the order o from position k on, stopping
\* at the first false one.
RECURSIVE ShortCircuit(_, _, _)
ShortCircuit(r, o, k) ==
    IF k > Len(o) THEN TRUE
    ELSE IF ~r[o[k]] THEN FALSE
    ELSE ShortCircuit(r, o, k + 1)

\* The five predicate results for t, in the order of is_valid's source.
Five(t) == <<Len(t) >= 6, HasUpper(t), HasLower(t), HasNumeric(t), HasSpecial(t)>>

---------------------------------------------------------------------------
(* Claims.                                                                 *)

\* C1: a call of either variant returns true if and only if all five
\* predicates hold together: at least 6 characters, a lowercase, an
\* uppercase, a numeric and a special character; else it returns false.
C1_TrueIffAllFive ==
    \A v \in DOMAIN result : result[v] = Policy(password)

C1_Witness ==
    /\ called = Variants
    /\ password = <<"P", "y", "t", "h", "o", "n", "R", "0", "c", "k", "s", "!">>
    /\ result["function"] /\ result["property"]

\* C2: a text of fewer than 6 characters is rejected whatever it contains.
C2_ShortIsRejected ==
    \A v \in DOMAIN result : Len(password) < 6 => result[v] = FALSE

C2_Witness ==
    /\ called = Variants
    /\ Len(password) = 5
    /\ AllFour(password)
    /\ ~result["function"] /\ ~result["property"]

\* C3: a text of any length that lacks a lowercase, an uppercase, a numeric
\* or a special character is rejected; a character outside the six special
\* characters does not count as special.
C3_MissingClassIsRejected ==
    \A v \in DOMAIN result : ~AllFour(password) => result[v] = FALSE

C3_Witness ==
    /\ called = Variants
    /\ password = <<"A", "b", "1", "#", "a", "b">>
    /\ ~result["function"] /\ ~result["property"]

\* C4: every call returns a boolean, none ends in an error, and the result
\* for the empty text is false.
C4_Total ==
    /\ called = DOMAIN result
    /\ \A v \in called : result[v] \in BOOLEAN
    /\ \A v \in called : password = <<>> => result[v] = FALSE

C4_Witness ==
    /\ called = Variants
    /\ password = <<>>
    /\ result = [v \in Variants |-> FALSE]

\* C5: the function and the property return the same boolean for the same text.
C5_VariantsAgree ==
    called = Variants => result["function"] = result["property"]

C5_Witness ==
    /\ called = Variants
    /\ Len(password) = 6
    /\ password \in Texts
    /\ result["function"] /\ result["property"]

\* C6: the result for a permutation of a text is the result for the text.
C6_PermutationKeepsResult ==
    op = "permute" => \A v \in DOMAIN result : prev_result = {result[v]}

C6_Witness ==
    /\ op = "permute"
    /\ password = <<"A", "b", "!", "1", "a", "b">>
    /\ prev_result = {TRUE}
    /\ result["function"]

\* C7: after any sequence of calls, a call with an input returns what the
\* first call with that input returned, and no call changes the special
\* characters.
C7_Deterministic ==
    /\ \A v \in DOMAIN result :
          password \in DOMAIN first => result[v] = first[password]
    /\ Password_SPECIAL_CHARS = <<"!", "?", "&", "%", "*", "@">>

C7_Witness ==
    /\ op = "again"
    /\ DOMAIN first = CallInputs
    /\ password = <<"A", "b", "1", "!", "a", "b">>
    /\ result = [v \in {"property"} |-> TRUE]

\* C8: the length bound is inclusive: a text of exactly 6 characters with a
\* lowercase, an uppercase, a numeric and a special character is accepted.
C8_SixIsEnough ==
    \A v \in DOMAIN result :
        (Len(password) = 6 /\ AllFour(password)) => result[v] = TRUE

C8_Witness ==
    /\ called = Variants
    /\ password = <<"A", "b", "1", "!", "a", "b">>
    /\ result["function"] /\ result["property"]

\* C9: the set of the five predicate results, given to all(), yields their
\* conjunction, which is also what evaluation in any order yields when it
\* stops at the first false predicate.
C9_SetAllIsConjunction ==
    \A v \in DOMAIN result :
        LET r == Five(password)
        IN  /\ constraints[v] = {r[k] : k \in 1..5}
            /\ result[v] = all(constraints[v])
            /\ result[v] = (r[1] /\ r[2] /\ r[3] /\ r[4] /\ r[5])
            /\ \A o \in Orders : ShortCircuit(r, o, 1) = result[v]

C9_Witness ==
    /\ called = Variants
    /\ constraints["function"] = {TRUE, FALSE}
    /\ Five(password) = <<TRUE, TRUE, FALSE, TRUE, TRUE>>
    /\ ~result["function"]

\* C10: a valid password extended at either end is valid.
C10_ExtensionStaysValid ==
    (op = "extend" /\ TRUE \in prev_result) => \A v \in DOMAIN result : result[v] = TRUE

C10_Witness ==
    /\ op = "extend"
    /\ prev_result = {TRUE}
    /\ Len(password) = 9
    /\ password[1] = "x"
    /\ result["function"] /\ result["property"]

====
